---- MODULE Spec2Model ----
(***************************************************************************)
(* Model of the three text-to-image batch scripts                          *)
(*   qwen-image-plus.py, seedream3.0&4.0.py, wan2.5-t2i-preview.py         *)
(* Row Source -> Batch Driver -> generate_image (retry loop or             *)
(* submit/poll/extract) -> image file, report.                             *)
(***************************************************************************)
EXTENDS Integers, Sequences, FiniteSets, TLC

(* ------------------------------ bounds --------------------------------- *)
\* largest number of data rows of a spreadsheet
MaxRows == 3
\* largest number of columns of a spreadsheet
MaxCols == 1
MaxProbeRows == 3

(* ------------------------- program constants --------------------------- *)
\* generate_image(..., retry_count=3) of the synchronous scripts
retry_count == 3
\* get_task_result(..., max_retries=30, retry_interval=30)
max_retries == 30

Scripts == {"qwen", "seedream", "wan"}
SyncScripts == {"qwen", "seedream"}

(* ------------------------------ values --------------------------------- *)
\* Python None, for byte strings, URLs, paths and task ids
None == "None"
\* byte strings: a decodable image, undecodable bytes, the empty byte string
Bytes == {"imgA", "junk", ""}
\* truth value of a Python str / bytes / None
Truthy(v) == v # None /\ v # ""
\* PIL.Image.open(BytesIO(b)) succeeds
ValidImage(b) == b \in {"imgA", "imgB"}

\* base64 texts: encodings of the byte strings, and a text b64decode rejects
B64Texts == {"b64:imgA", "b64:junk", "", "b64!"}
\* base64.b64decode(s): the decoded bytes, or an exception
B64Decode(s) ==
    CASE s = "b64:imgA" -> [ok |-> TRUE, bytes |-> "imgA"]
      [] s = "b64:imgB" -> [ok |-> TRUE, bytes |-> "imgB"]
      [] s = "b64:junk" -> [ok |-> TRUE, bytes |-> "junk"]
      [] s = ""         -> [ok |-> TRUE, bytes |-> ""]
      [] OTHER          -> [ok |-> FALSE, bytes |-> None]

Urls == {"http://img"}
\* str.startswith("http")
StartsWithHttp(s) == s \in Urls

(* ------------------------------ row ids -------------------------------- *)
\* the row identifier handed to generate_image: an integer row number in a
\* batch, the text "test_single" in the single-image test
IntRow(n) == [kind |-> "int", n |-> n, s |-> ""]
StrRow(t) == [kind |-> "str", n |-> 0, s |-> t]

RECURSIVE Pad4(_)
\* left padding with zeros to width 4, as the format code 04d does
Pad4(s) == IF Len(s) >= 4 THEN s ELSE Pad4("0" \o s)

\* f"row_{row_num:04d}.png": a ValueError for a str row identifier
RowFileName(r) ==
    IF r.kind = "int"
    THEN [ok |-> TRUE, name |-> "row_" \o Pad4(ToString(r.n)) \o ".png"]
    ELSE [ok |-> FALSE, name |-> None]

(* ----------------------------- row source ------------------------------ *)
\* cell texts are sequences of characters
Whitespace == {" "}
LowerChar(c) == CASE c = "N" -> "n" [] c = "A" -> "a" [] c = "O" -> "o"
                  [] c = "E" -> "e" [] OTHER -> c
\* str.lower()
Lower(s) == [k \in 1..Len(s) |-> LowerChar(s[k])]

RECURSIVE LStrip(_)
LStrip(s) == IF s # <<>> /\ Head(s) \in Whitespace THEN LStrip(Tail(s)) ELSE s
RECURSIVE RStrip(_)
RStrip(s) == IF s # <<>> /\ s[Len(s)] \in Whitespace
             THEN RStrip(SubSeq(s, 1, Len(s) - 1)) ELSE s
\* str.strip()
Strip(s) == RStrip(LStrip(s))

\* a spreadsheet cell as pandas delivers it: a text, or the float NaN of an
\* empty cell
TextCell(s) == [t |-> "str", v |-> s]
NaNCell == [t |-> "nan", v |-> <<>>]
\* str(cell)
Str(cell) == IF cell.t = "nan" THEN <<"n", "a", "n">> ELSE cell.v

\* the test without lower(): only the spelling 'nan' is skipped
KeepText_CaseSensitiveNan(text) ==
    /\ text # <<>>
    /\ text # <<"n", "a", "n">>
    /\ text # <<"N", "o", "n", "e">>

\* the test of the loop body: text and text.lower() != 'nan' and text != 'None'
KeepText(text) ==
    /\ text # <<>>
    /\ Lower(text) # <<"n", "a", "n">>
    /\ text # <<"N", "o", "n", "e">>

RECURSIVE ReadRows(_, _, _, _)
\* the loop over df.iterrows(): df is the sequence of data rows, idx the
\* 0-based position of its first remaining row
ReadRows(df, idx, column_index, start_row) ==
    IF df = <<>> THEN [ok |-> TRUE, texts |-> <<>>]
    ELSE LET row == Head(df)
             row_num == idx + start_row
             rest == ReadRows(Tail(df), idx + 1, column_index, start_row)
         IN  IF column_index < Len(row)
             THEN \* row.iloc[column_index]: IndexError below -len(row)
                  IF column_index < 0 - Len(row)
                  THEN [ok |-> FALSE, texts |-> <<>>]
                  ELSE LET pos == IF column_index >= 0 THEN column_index + 1
                                  ELSE Len(row) + column_index + 1
                           text == Strip(Str(row[pos]))
                       IN  IF ~rest.ok THEN rest
                           ELSE IF KeepText(text)
                                THEN [ok |-> TRUE,
                                      texts |-> <<<<row_num, text>>>> \o rest.texts]
                                ELSE rest
             ELSE rest

\* row numbers that start at 1 whether or not there is a header row
read_texts_from_excel_NoHeaderOffset(df, column_index, has_header) ==
    ReadRows(df, 0, column_index, 1)

\* read_texts_from_excel(excel_path, column_index, has_header) on the data
\* rows df that pd.read_excel returned
read_texts_from_excel(df, column_index, has_header) ==
    ReadRows(df, 0, column_index, IF has_header THEN 2 ELSE 1)

(* -------------------------- HTTP environment --------------------------- *)
\* what requests.post / requests.get does: raise requests.exceptions.Timeout,
\* raise another transport exception, or return a response
Nets == {"timeout", "error", "response"}
\* status codes of the generation API
Statuses == {200, 429, 401, 400, 500}

\* the outcome of requests.get(image_url, timeout=30)
Download(net, status, content) == [net |-> net, status |-> status, content |-> content]
Downloads == {Download("timeout", 0, ""), Download("error", 0, ""),
              Download("response", 404, "junk")}
             \cup {Download("response", 200, b) : b \in Bytes}
\* the download parameter of an attempt that fetches nothing
NoDownload == Download("none", 0, "")

\* the fields of a JSON response body of the synchronous APIs
\*   images: absent, [], [text], [object]
ImagesFields == {[t |-> "absent", v |-> ""], [t |-> "empty", v |-> ""],
                 [t |-> "obj", v |-> ""]}
                \cup {[t |-> "str", v |-> s] : s \in B64Texts}
\*   output: absent, without a choices[0].message.content[0].image, or with
\*   that image being a text, null or an object
OutputFields == {[t |-> "absent", v |-> ""], [t |-> "nochoices", v |-> ""],
                 [t |-> "null", v |-> ""], [t |-> "obj", v |-> ""]}
                \cup {[t |-> "str", v |-> s] : s \in B64Texts \cup Urls}
\*   data: absent, [], or [item] with optional url and b64_json
DataFields == {[t |-> "absent", has_url |-> FALSE, url |-> "", has_b64 |-> FALSE, b64 |-> ""],
               [t |-> "empty", has_url |-> FALSE, url |-> "", has_b64 |-> FALSE, b64 |-> ""]}
              \cup {[t |-> "item", has_url |-> TRUE, url |-> u, has_b64 |-> TRUE, b64 |-> b] :
                      u \in Urls, b \in B64Texts}
              \cup {[t |-> "item", has_url |-> TRUE, url |-> u, has_b64 |-> FALSE, b64 |-> ""] :
                      u \in Urls}
              \cup {[t |-> "item", has_url |-> FALSE, url |-> "", has_b64 |-> TRUE, b64 |-> b] :
                      b \in B64Texts}
              \cup {[t |-> "item", has_url |-> FALSE, url |-> "", has_b64 |-> FALSE, b64 |-> ""]}

AbsentImages == [t |-> "absent", v |-> ""]
AbsentOutput == [t |-> "absent", v |-> ""]
AbsentData == [t |-> "absent", has_url |-> FALSE, url |-> "", has_b64 |-> FALSE, b64 |-> ""]

\* a response body: text that is not JSON, JSON that is not an object, or an
\* object with the three fields
Body(json, images, output, data) ==
    [json |-> json, images |-> images, output |-> output, data |-> data]
BadJson == Body("bad", AbsentImages, AbsentOutput, AbsentData)
NonDict == Body("nondict", AbsentImages, AbsentOutput, AbsentData)
DictBodies == {Body("dict", im, ou, da) :
                 im \in ImagesFields, ou \in OutputFields, da \in DataFields}
\* the bodies with at most one of the three fields present
SingleShapeBodies ==
    {b \in DictBodies :
        Cardinality({f \in {"images", "output", "data"} : b[f].t # "absent"}) <= 1}

(* --------------------- response parsing, qwen-image-plus --------------- *)
\* the parsing with the data branch in front of the output branch
QwenExtract_DataBeforeOutput(body) ==
    LET none == [image_data |-> None, image_url |-> None, raised |-> FALSE]
    IN
    IF body.json # "dict" THEN none
    ELSE IF body.images.t \in {"str", "obj"}
    THEN IF body.images.t = "str"
         THEN LET d == B64Decode(body.images.v)
              IN  [none EXCEPT !.image_data = IF d.ok THEN d.bytes ELSE None]
         ELSE none
    ELSE IF body.data.t = "item"
    THEN IF body.data.has_url
         THEN [none EXCEPT !.image_url = body.data.url]
         ELSE IF body.data.has_b64
         THEN LET d == B64Decode(body.data.b64)
              IN  [none EXCEPT !.image_data = IF d.ok THEN d.bytes ELSE None]
         ELSE none
    ELSE IF body.output.t # "absent"
    THEN CASE body.output.t = "nochoices" -> none
           [] body.output.t = "null" -> none
           [] body.output.t = "obj" -> [none EXCEPT !.raised = TRUE]
           [] body.output.t = "str" ->
                IF Truthy(body.output.v) /\ StartsWithHttp(body.output.v)
                THEN [none EXCEPT !.image_url = body.output.v]
                ELSE LET d == B64Decode(body.output.v)
                     IN  [image_data |-> IF d.ok THEN d.bytes ELSE None,
                          image_url |-> body.output.v,
                          raised |-> FALSE]
    ELSE none

\* lines 141-195: the image data and image URL found in a 200 response;
\* raised is an exception that leaves the parsing code
QwenExtract(body) ==
    LET none == [image_data |-> None, image_url |-> None, raised |-> FALSE]
    IN
    IF body.json # "dict" THEN none
    ELSE IF body.images.t \in {"str", "obj"}
    THEN IF body.images.t = "str"
         THEN LET d == B64Decode(body.images.v)
              IN  [none EXCEPT !.image_data = IF d.ok THEN d.bytes ELSE None]
         ELSE none
    ELSE IF body.output.t # "absent"
    THEN CASE body.output.t = "nochoices" -> none
           [] body.output.t = "null" -> none
           [] body.output.t = "obj" -> [none EXCEPT !.raised = TRUE]
           [] body.output.t = "str" ->
                IF Truthy(body.output.v) /\ StartsWithHttp(body.output.v)
                THEN [none EXCEPT !.image_url = body.output.v]
                ELSE LET d == B64Decode(body.output.v)
                     IN  [image_data |-> IF d.ok THEN d.bytes ELSE None,
                          image_url |-> body.output.v,
                          raised |-> FALSE]
    ELSE IF body.data.t = "item"
    THEN IF body.data.has_url
         THEN [none EXCEPT !.image_url = body.data.url]
         ELSE IF body.data.has_b64
         THEN LET d == B64Decode(body.data.b64)
              IN  [none EXCEPT !.image_data = IF d.ok THEN d.bytes ELSE None]
         ELSE none
    ELSE none

\* a download whose response body is dropped
QwenDownload_DropsContent(x, dl) ==
    IF ~Truthy(x.image_url)
    THEN [image_data |-> x.image_data, dl_calls |-> 0, downloads |-> 0]
    ELSE IF ~StartsWithHttp(x.image_url)
    THEN [image_data |-> x.image_data, dl_calls |-> 1, downloads |-> 0]
    ELSE [image_data |-> x.image_data, dl_calls |-> 1, downloads |-> 1]

\* a download that fetches the URL a second time
QwenDownload_Twice(x, dl) ==
    IF ~Truthy(x.image_url)
    THEN [image_data |-> x.image_data, dl_calls |-> 0, downloads |-> 0]
    ELSE IF ~StartsWithHttp(x.image_url)
    THEN [image_data |-> x.image_data, dl_calls |-> 1, downloads |-> 0]
    ELSE [image_data |-> IF dl.net = "response" /\ dl.status = 200
                         THEN dl.content ELSE x.image_data,
          dl_calls |-> 2, downloads |-> 2]

\* lines 197-208: the image data after the optional download; a text that
\* is not a URL makes requests.get raise before anything is sent
QwenDownload(x, dl) ==
    IF ~Truthy(x.image_url)
    THEN [image_data |-> x.image_data, dl_calls |-> 0, downloads |-> 0]
    ELSE IF ~StartsWithHttp(x.image_url)
    THEN [image_data |-> x.image_data, dl_calls |-> 1, downloads |-> 0]
    ELSE [image_data |-> IF dl.net = "response" /\ dl.status = 200
                         THEN dl.content ELSE x.image_data,
          dl_calls |-> 1, downloads |-> 1]

\* the download parameters an attempt can meet
QwenNeedsDownload(body) ==
    LET x == QwenExtract(body)
    IN  ~x.raised /\ Truthy(x.image_url) /\ StartsWithHttp(x.image_url)

\* status-code dispatch of the retry loop, lines 233-246
QwenControl(status) ==
    CASE status = 429 -> "continue"
      [] status \in {401, 400} -> "break"
      [] OTHER -> "fallthrough"

StatusKind(status) ==
    CASE status = 429 -> "RATE_LIMITED"
      [] status = 401 -> "UNAUTHORIZED"
      [] status = 400 -> "BAD_REQUEST"
      [] OTHER -> "HTTP_ERROR"

\* saving whatever bytes arrived, without opening them as an image
SaveImage_NoValidation(r, image_data) ==
    IF ~Truthy(image_data) THEN [kind |-> "NO_IMAGE", path |-> None, raised |-> FALSE]
    ELSE LET f == RowFileName(r)
             k == IF ValidImage(image_data) THEN "IMAGE" ELSE "BAD_IMAGE"
         IN  IF ~f.ok THEN [kind |-> k, path |-> None, raised |-> TRUE]
             ELSE [kind |-> k, path |-> f.name, raised |-> FALSE]

\* lines 210-231: save the image data
\*   kind: what the attempt obtained; path: the file written, or None
SaveImage(r, image_data) ==
    IF ~Truthy(image_data) THEN [kind |-> "NO_IMAGE", path |-> None, raised |-> FALSE]
    ELSE LET f == RowFileName(r)
             k == IF ValidImage(image_data) THEN "IMAGE" ELSE "BAD_IMAGE"
         IN  IF ~f.ok THEN [kind |-> k, path |-> None, raised |-> TRUE]
             ELSE IF ValidImage(image_data)
                  THEN [kind |-> k, path |-> f.name, raised |-> FALSE]
                  ELSE [kind |-> k, path |-> None, raised |-> FALSE]

\* one iteration of the for loop of generate_image (qwen), lines 108-262,
\* up to the wait before the next attempt
QwenAttempt(r, net, status, body, dl) ==
    LET fail(k, ctl) == [kind |-> k, path |-> None, control |-> ctl,
                         dl_calls |-> 0, downloads |-> 0, dumps |-> 0]
    IN
    CASE net = "timeout" -> fail("TIMEOUT", "fallthrough")
      [] net = "error" -> fail("CONN_ERROR", "fallthrough")
      [] net = "response" /\ status # 200 -> fail(StatusKind(status), QwenControl(status))
      [] net = "response" /\ status = 200 /\ body.json = "bad" ->
            fail("BAD_JSON", "fallthrough")
      [] OTHER ->
            LET x == QwenExtract(body)
            IN  IF x.raised THEN [fail("NO_IMAGE", "fallthrough") EXCEPT !.dumps = 1]
                ELSE LET d == QwenDownload(x, dl)
                         s == SaveImage(r, d.image_data)
                     IN  [kind |-> s.kind, path |-> s.path,
                          control |-> IF s.path # None THEN "return" ELSE "fallthrough",
                          dl_calls |-> d.dl_calls, downloads |-> d.downloads,
                          dumps |-> 1]

(* ------------------------ response parsing, seedream ------------------- *)
\* lines 110-123: image data of a 200 response, with the download
SeedreamExtract(body, dl) ==
    LET res(b, raised, n) == [image_data |-> b, raised |-> raised, timeout |-> FALSE,
                              dl_calls |-> n, downloads |-> n]
    IN
    IF body.json # "dict" THEN res(None, FALSE, 0)
    ELSE IF body.images.t \in {"str", "obj"}
    THEN IF body.images.t = "obj" THEN res(None, TRUE, 0)
         ELSE LET d == B64Decode(body.images.v)
              IN  IF d.ok THEN res(d.bytes, FALSE, 0) ELSE res(None, TRUE, 0)
    ELSE IF body.data.t = "item"
    THEN IF body.data.has_b64
         THEN LET d == B64Decode(body.data.b64)
              IN  IF d.ok THEN res(d.bytes, FALSE, 0) ELSE res(None, TRUE, 0)
         ELSE IF body.data.has_url
         THEN CASE dl.net = "timeout" -> [res(None, TRUE, 1) EXCEPT !.timeout = TRUE]
                [] dl.net = "error" -> res(None, TRUE, 1)
                [] OTHER -> res(dl.content, FALSE, 1)
         ELSE res(None, FALSE, 0)
    ELSE res(None, FALSE, 0)

SeedreamNeedsDownload(body) ==
    /\ body.json = "dict"
    /\ body.images.t \notin {"str", "obj"}
    /\ body.data.t = "item" /\ ~body.data.has_b64 /\ body.data.has_url

\* status-code dispatch of the retry loop, lines 142-150
SeedreamControl(status) ==
    CASE status = 429 -> "continue"
      [] OTHER -> "fallthrough"

\* one iteration of the for loop of generate_image (seedream), lines 88-159
SeedreamAttempt(r, net, status, body, dl) ==
    LET fail(k, ctl) == [kind |-> k, path |-> None, control |-> ctl,
                         dl_calls |-> 0, downloads |-> 0, dumps |-> 0]
    IN
    CASE net = "timeout" -> fail("TIMEOUT", "fallthrough")
      [] net = "error" -> fail("CONN_ERROR", "fallthrough")
      [] net = "response" /\ status # 200 ->
            fail(StatusKind(status), SeedreamControl(status))
      [] net = "response" /\ status = 200 /\ body.json = "bad" ->
            fail("BAD_JSON", "fallthrough")
      [] OTHER ->
            LET x == SeedreamExtract(body, dl)
            IN  IF x.raised
                THEN [fail(IF x.timeout THEN "TIMEOUT" ELSE "NO_IMAGE", "fallthrough")
                        EXCEPT !.dl_calls = x.dl_calls, !.downloads = x.downloads]
                ELSE LET s == SaveImage(r, x.image_data)
                     IN  [kind |-> s.kind, path |-> s.path,
                          control |-> IF s.path # None THEN "return" ELSE "fallthrough",
                          dl_calls |-> x.dl_calls, downloads |-> x.downloads,
                          dumps |-> 0]

\* the classification of what a stage obtained, as the retry wrapper
\* distinguishes it
Classify(kind) ==
    IF kind \in {"HTTP_ERROR", "CONN_ERROR", "BAD_JSON", "NO_IMAGE", "BAD_IMAGE",
                 "NO_TASK_ID"}
    THEN "UNKNOWN_ERROR" ELSE kind

\* a rate-limit wait that does not grow with the attempt
RateLimitWait_Flat(a) == 10

\* the wait after a rate-limited attempt, and the backoff before a retry
RateLimitWait(a) == (a + 1) * 10
BackoffWait(a) == 2 ^ a

(* ------------------------- asynchronous adapter ------------------------ *)
\* bodies of the task-creation response: not JSON, without output.task_id,
\* or with a task id
SubmitBodies == {"bad", "no_task_id", "task_id"}

\* create_async_task, lines 78-123: the task id, or None
create_async_task(net, status, body) ==
    CASE net = "timeout" -> [kind |-> "TIMEOUT", task_id |-> None]
      [] net = "error" -> [kind |-> "CONN_ERROR", task_id |-> None]
      [] net = "response" /\ status # 200 ->
            [kind |-> StatusKind(status), task_id |-> None]
      [] net = "response" /\ status = 200 /\ body = "bad" ->
            [kind |-> "BAD_JSON", task_id |-> None]
      [] net = "response" /\ status = 200 /\ body = "no_task_id" ->
            [kind |-> "NO_TASK_ID", task_id |-> None]
      [] OTHER -> [kind |-> "TASK_CREATED", task_id |-> "task-1"]

\* what a status query can meet: a transport exception, a non-200 status, a
\* body that is not JSON, a body without output, or a task status
PollReplies == {"EXCEPTION", "HTTP_ERROR", "BAD_JSON", "NO_OUTPUT",
                "SUCCEEDED", "FAILED", "RUNNING", "PENDING", "UNKNOWN"}

\* PollStep with a FAILED task treated like an unknown status: sleep and
\* query again
PollStep_FailedKeepsPolling(reply) ==
    CASE reply = "SUCCEEDED" -> [control |-> "result", dump |-> 1]
      [] reply \in {"FAILED", "RUNNING", "PENDING", "UNKNOWN", "NO_OUTPUT"} ->
            [control |-> "sleep", dump |-> 1]
      [] OTHER -> [control |-> "sleep", dump |-> 0]

\* PollStep giving up on a RUNNING task
PollStep_RunningGivesUp(reply) ==
    CASE reply = "SUCCEEDED" -> [control |-> "result", dump |-> 1]
      [] reply \in {"FAILED", "RUNNING"} -> [control |-> "none", dump |-> 1]
      [] reply \in {"PENDING", "UNKNOWN", "NO_OUTPUT"} ->
            [control |-> "sleep", dump |-> 1]
      [] OTHER -> [control |-> "sleep", dump |-> 0]

\* PollStep giving up when a status query fails
PollStep_ErrorGivesUp(reply) ==
    CASE reply = "SUCCEEDED" -> [control |-> "result", dump |-> 1]
      [] reply = "FAILED" -> [control |-> "none", dump |-> 1]
      [] reply \in {"RUNNING", "PENDING", "UNKNOWN"} ->
            [control |-> "sleep", dump |-> 1]
      [] reply = "NO_OUTPUT" -> [control |-> "none", dump |-> 1]
      [] OTHER -> [control |-> "none", dump |-> 0]

\* PollStep handing a FAILED task to extraction as if it had succeeded
PollStep_FailedReturnsResult(reply) ==
    CASE reply \in {"SUCCEEDED", "FAILED"} -> [control |-> "result", dump |-> 1]
      [] reply \in {"RUNNING", "PENDING", "UNKNOWN", "NO_OUTPUT"} ->
            [control |-> "sleep", dump |-> 1]
      [] OTHER -> [control |-> "sleep", dump |-> 0]

\* one iteration of the loop of get_task_result, lines 131-178:
\*   control: return the result, return None, or sleep retry_interval
\*   dump: the debug file task_debug_<task_id>_<attempt>.json is written
PollStep(reply) ==
    CASE reply = "SUCCEEDED" -> [control |-> "result", dump |-> 1]
      [] reply = "FAILED" -> [control |-> "none", dump |-> 1]
      [] reply \in {"RUNNING", "PENDING", "UNKNOWN", "NO_OUTPUT"} ->
            [control |-> "sleep", dump |-> 1]
      [] OTHER -> [control |-> "sleep", dump |-> 0]

\* the output of a SUCCEEDED task result: results absent, [] or [item] with
\* optional url and image; output.image absent or a base64 text
ResultsFields ==
    {[t |-> "absent", has_url |-> FALSE, url |-> "", has_image |-> FALSE, image |-> ""],
     [t |-> "empty", has_url |-> FALSE, url |-> "", has_image |-> FALSE, image |-> ""],
     [t |-> "item", has_url |-> FALSE, url |-> "", has_image |-> FALSE, image |-> ""]}
    \cup {[t |-> "item", has_url |-> TRUE, url |-> u, has_image |-> FALSE, image |-> ""] :
            u \in Urls}
    \cup {[t |-> "item", has_url |-> FALSE, url |-> "", has_image |-> TRUE, image |-> b] :
            b \in B64Texts}
    \cup {[t |-> "item", has_url |-> TRUE, url |-> u, has_image |-> TRUE, image |-> b] :
            u \in Urls, b \in B64Texts}
OutputImageFields == {[t |-> "absent", v |-> ""]} \cup {[t |-> "str", v |-> b] : b \in B64Texts}
Payloads == {[results |-> r, image |-> im] : r \in ResultsFields, im \in OutputImageFields}

\* extract_image_from_result, lines 183-238: the image data, or None
extract_image_from_result(payload, dl) ==
    LET res(b, c, n) == [image_data |-> b, dl_calls |-> c, downloads |-> n]
        r == payload.results
    IN
    IF r.t = "item"
    THEN IF r.has_url
         THEN IF Truthy(r.url)
              THEN IF dl.net = "response" /\ dl.status = 200
                   THEN res(dl.content, 1, 1)
                   ELSE res(None, 1, 1)
              ELSE res(None, 0, 0)
         ELSE IF r.has_image
         THEN LET d == B64Decode(r.image)
              IN  res(IF d.ok THEN d.bytes ELSE None, 0, 0)
         ELSE res(None, 0, 0)
    ELSE IF payload.image.t = "str"
    THEN LET d == B64Decode(payload.image.v)
         IN  res(IF d.ok THEN d.bytes ELSE None, 0, 0)
    ELSE res(None, 0, 0)

WanNeedsDownload(payload) ==
    payload.results.t = "item" /\ payload.results.has_url /\ Truthy(payload.results.url)

(* ------------------------------ batch driver --------------------------- *)
\* RecordOutcome putting a failed row in front of the failed list
RecordOutcome_FailedInFront(success, failed, row_num, res) ==
    IF Truthy(res)
    THEN [success |-> Append(success, row_num), failed |-> failed]
    ELSE [success |-> success, failed |-> <<row_num>> \o failed]

\* RecordOutcome forgetting a failed row
RecordOutcome_DropFailed(success, failed, row_num, res) ==
    IF Truthy(res)
    THEN [success |-> Append(success, row_num), failed |-> failed]
    ELSE [success |-> success, failed |-> failed]

\* RecordOutcome with two ifs instead of if/else, the second one always true
RecordOutcome_Both(success, failed, row_num, res) ==
    IF Truthy(res)
    THEN [success |-> Append(success, row_num), failed |-> Append(failed, row_num)]
    ELSE [success |-> success, failed |-> Append(failed, row_num)]

\* lines 291-294 of batch_generate: the two lists after one row
RecordOutcome(success, failed, row_num, res) ==
    IF Truthy(res)
    THEN [success |-> Append(success, row_num), failed |-> failed]
    ELSE [success |-> success, failed |-> Append(failed, row_num)]

\* lines 296-298 of batch_generate: the number of sleeps after one row
InterRowSleeps(delay_seconds, n) == IF delay_seconds > 0 /\ n > 1 THEN 1 ELSE 0

\* a report without the section of the failed rows
generate_report_NoFailedSection(success, failed) ==
    [total |-> Len(success) + Len(failed),
     success |-> Len(success),
     failed |-> Len(failed),
     success_lines |-> [k \in 1..Len(success) |->
                          <<success[k], "row_" \o Pad4(ToString(success[k])) \o ".png">>],
     failed_lines |-> <<>>]

\* _generate_report: the totals and the two row sections of the report file
\* (a section is written only when its list is not empty)
generate_report(success, failed) ==
    [total |-> Len(success) + Len(failed),
     success |-> Len(success),
     failed |-> Len(failed),
     success_lines |-> [k \in 1..Len(success) |->
                          <<success[k], "row_" \o Pad4(ToString(success[k])) \o ".png">>],
     failed_lines |-> failed]

\* the value generate_from_excel returns
BatchResult(texts_, success, failed) ==
    [total |-> Len(texts_), success |-> Len(success), failed |-> Len(failed),
     success_rows |-> success, failed_rows |-> failed]

(* ------------------------------- state --------------------------------- *)
VARIABLES
    script,         \* which of the three scripts runs
    mode,           \* "batch" (main) or "single" (test_single_image)
    pc,             \* position of the run
    texts,          \* the (row_num, text) pairs the Row Source returned
    delay,          \* delay parameter of batch_generate
    i,              \* 1-based position of the current row in texts
    row,            \* row identifier of the current generate_image call
    success_rows,
    failed_rows,
    attempt,        \* loop variable of the retry loop / of the poll loop
    outcomes,       \* classification of each stage of the current call, in order
    last_kind,      \* what the last stage of the current call obtained, in detail
    waits,          \* the sleeps of the retry loop of the current call, in order
    requests,       \* generation requests issued by the current call
    dl_calls,       \* calls of requests.get(image_url) by the last attempt
    downloads,      \* image downloads sent by the last attempt
    dumps,          \* debug files written by the last attempt / status query
    polls,          \* status queries issued by the current call
    prior_running,  \* every status query before the last one reported RUNNING
    poll_waits,     \* sleeps of retry_interval by the current call
    last_status,    \* what the last status query met
    task_id,
    task_result,    \* what get_task_result returned
    result,         \* what the current generate_image call returned
    raised,         \* the function an exception escaped from, or "none"
    files,          \* image files written by the run
    delays,         \* sleeps of delay seconds performed by batch_generate
    attempt_order,  \* row identifiers in the order of their first request
    returns,        \* (row identifier, success) of each generate_image return
    report,         \* content of the report file
    report_writes,  \* how often the report file was written
    ret,            \* what generate_from_excel returned
    probe           \* inputs and result of a function applied on its own

run_vars == <<script, mode, pc, texts, delay, i, row, success_rows, failed_rows,
              attempt, outcomes, last_kind, waits, requests, dl_calls, downloads,
              dumps, polls, prior_running, poll_waits, last_status, task_id,
              task_result,
              result, raised, files, delays, attempt_order, returns, report,
              report_writes, ret>>
vars == <<run_vars, probe>>

batch_vars == <<texts, delay, i, success_rows, failed_rows, delays, report,
                report_writes, ret>>
poll_vars == <<polls, prior_running, poll_waits, last_status, task_id, task_result>>

NoReport == [total |-> 0 - 1, success |-> 0, failed |-> 0,
             success_lines |-> <<>>, failed_lines |-> <<>>]
NoResult == [total |-> 0 - 1, success |-> 0, failed |-> 0,
             success_rows |-> <<>>, failed_rows |-> <<>>]

\* the spreadsheets of the runs: data rows of MaxCols cells, a text or empty
RunCells == {TextCell(<<"a">>), NaNCell}
RunRows == [1..MaxCols -> RunCells]
RunSheets == UNION {[1..n -> RunRows] : n \in 0..MaxRows}
ColumnIndexes == (0 - MaxCols - 1)..MaxCols
Delays == {0, 2}

\* no function is applied on its own during a run
NoProbe == [fn |-> "none"]

\* the state of a run before main() or test_single_image() starts
InitRun ==
    /\ pc = "start"
    /\ texts = <<>>
    /\ delay = 0
    /\ i = 0
    /\ row = IntRow(0)
    /\ success_rows = <<>>
    /\ failed_rows = <<>>
    /\ attempt = 0
    /\ outcomes = <<>>
    /\ last_kind = ""
    /\ waits = <<>>
    /\ requests = 0
    /\ dl_calls = 0
    /\ downloads = 0
    /\ dumps = 0
    /\ polls = 0
    /\ prior_running = TRUE
    /\ poll_waits = 0
    /\ last_status = ""
    /\ task_id = None
    /\ task_result = None
    /\ result = None
    /\ raised = "none"
    /\ files = {}
    /\ delays = 0
    /\ attempt_order = <<>>
    /\ returns = <<>>
    /\ report = NoReport
    /\ report_writes = 0
    /\ ret = NoResult

Init ==
    /\ script \in Scripts
    /\ mode \in {"batch", "single"}
    /\ mode = "single" => script \in {"qwen", "wan"}
    /\ InitRun
    /\ probe = NoProbe

\* entry of generate_image(prompt, row_num): the per-call state
CallGenerateImage(r) ==
    /\ row' = r
    /\ attempt' = 0
    /\ outcomes' = <<>>
    /\ last_kind' = ""
    /\ waits' = <<>>
    /\ requests' = 0
    /\ dl_calls' = 0
    /\ downloads' = 0
    /\ dumps' = 0
    /\ polls' = 0
    /\ prior_running' = TRUE
    /\ poll_waits' = 0
    /\ last_status' = ""
    /\ task_id' = None
    /\ task_result' = None
    /\ result' = None
    /\ pc' = IF script = "wan" THEN "submit" ELSE "gen"

\* return of generate_image with value res
ReturnFromGenerateImage(res) ==
    /\ result' = res
    /\ returns' = Append(returns, <<row, Truthy(res)>>)
    /\ files' = IF Truthy(res) THEN files \cup {res} ELSE files
    /\ pc' = "returned"

(* ------------------------------- actions ------------------------------- *)
\* a main() that still writes a report when the file is missing
MainFileMissing_WritesReport ==
    /\ pc = "start" /\ mode = "batch"
    /\ pc' = "aborted"
    /\ report' = [total |-> 0, success |-> 0, failed |-> 0,
                  success_lines |-> <<>>, failed_lines |-> <<>>]
    /\ report_writes' = report_writes + 1
    /\ UNCHANGED <<probe, script, mode, texts, delay, i, row, success_rows, failed_rows,
                   attempt, outcomes, last_kind, waits, requests, dl_calls, downloads,
                   dumps, polls, prior_running, poll_waits, last_status, task_id,
                   task_result, result, raised, files, delays, attempt_order,
                   returns, ret>>

\* main(), lines 405-409: the os.path.exists check fails
MainFileMissing ==
    /\ pc = "start" /\ mode = "batch"
    /\ pc' = "aborted"
    /\ UNCHANGED <<probe, script, mode, texts, delay, i, row, success_rows, failed_rows,
                   attempt, outcomes, last_kind, waits, requests, dl_calls, downloads,
                   dumps, polls, prior_running, poll_waits, last_status, task_id,
                   task_result, result, raised, files, delays, attempt_order,
                   returns, report, report_writes, ret>>

\* main() -> generate_from_excel -> read_texts_from_excel raises: pd.read_excel
\* fails, or row.iloc raises IndexError
GenerateFromExcelReadFails ==
    /\ pc = "start" /\ mode = "batch"
    /\ \E readable \in BOOLEAN, df \in RunSheets, column_index \in ColumnIndexes,
          has_header \in BOOLEAN :
          ~readable \/ ~read_texts_from_excel(df, column_index, has_header).ok
    /\ raised' = "read_texts_from_excel"
    /\ pc' = "crashed"
    /\ UNCHANGED <<probe, script, mode, texts, delay, i, row, success_rows, failed_rows,
                   attempt, outcomes, last_kind, waits, requests, dl_calls, downloads,
                   dumps, polls, prior_running, poll_waits, last_status, task_id,
                   task_result, result, files, delays, attempt_order,
                   returns, report, report_writes, ret>>

\* a generate_from_excel that goes on to the report when there are no rows
GenerateFromExcelEmpty_WritesReport ==
    /\ pc = "start" /\ mode = "batch"
    /\ \E df \in RunSheets, column_index \in ColumnIndexes, has_header \in BOOLEAN :
          LET r == read_texts_from_excel(df, column_index, has_header)
          IN  r.ok /\ r.texts = <<>>
    /\ pc' = "empty"
    /\ report' = [total |-> 0, success |-> 0, failed |-> 0,
                  success_lines |-> <<>>, failed_lines |-> <<>>]
    /\ report_writes' = report_writes + 1
    /\ UNCHANGED <<probe, script, mode, texts, delay, i, row, success_rows, failed_rows,
                   attempt, outcomes, last_kind, waits, requests, dl_calls, downloads,
                   dumps, polls, prior_running, poll_waits, last_status, task_id,
                   task_result, result, raised, files, delays, attempt_order,
                   returns, ret>>

\* generate_from_excel, lines 302-312: the Row Source yields no rows
GenerateFromExcelEmpty ==
    /\ pc = "start" /\ mode = "batch"
    /\ \E df \in RunSheets, column_index \in ColumnIndexes, has_header \in BOOLEAN :
          LET r == read_texts_from_excel(df, column_index, has_header)
          IN  r.ok /\ r.texts = <<>>
    /\ pc' = "empty"
    /\ UNCHANGED <<probe, script, mode, texts, delay, i, row, success_rows, failed_rows,
                   attempt, outcomes, last_kind, waits, requests, dl_calls, downloads,
                   dumps, polls, prior_running, poll_waits, last_status, task_id,
                   task_result, result, raised, files, delays, attempt_order,
                   returns, report, report_writes, ret>>

\* generate_from_excel, lines 302-321: the rows are read and batch_generate
\* starts with empty lists
GenerateFromExcelRead ==
    /\ pc = "start" /\ mode = "batch"
    /\ \E df \in RunSheets, column_index \in ColumnIndexes, has_header \in BOOLEAN,
          d \in Delays :
          LET r == read_texts_from_excel(df, column_index, has_header)
          IN  /\ r.ok /\ r.texts # <<>>
              /\ texts' = r.texts
              /\ delay' = d
    /\ i' = 1
    /\ success_rows' = <<>>
    /\ failed_rows' = <<>>
    /\ pc' = "batch"
    /\ UNCHANGED <<probe, script, mode, row, attempt, outcomes, last_kind, waits, requests,
                   dl_calls, downloads, dumps, polls, prior_running, poll_waits, last_status,
                   task_id, task_result, result, raised, files, delays,
                   attempt_order, returns, report, report_writes, ret>>

\* batch_generate, the head of the for loop: generate_image is called for
\* the next row
BatchNext ==
    /\ pc = "batch" /\ i <= Len(texts)
    /\ CallGenerateImage(IntRow(texts[i][1]))
    /\ UNCHANGED <<probe, script, mode, raised, files, attempt_order, returns>>
    /\ UNCHANGED batch_vars

\* test_single_image: generate_image(prompt, row_num="test_single")
TestSingleImage ==
    /\ pc = "start" /\ mode = "single"
    /\ CallGenerateImage(StrRow("test_single"))
    /\ UNCHANGED <<probe, script, mode, raised, files, attempt_order, returns>>
    /\ UNCHANGED batch_vars

\* what a generation request can meet
Reply(net, status, body) == [net |-> net, status |-> status, body |-> body]
\* the bodies the runs meet: those of at most one shape
RunBodies == {BadJson, NonDict} \cup SingleShapeBodies
SyncReplies ==
    {Reply("timeout", 0, BadJson), Reply("error", 0, BadJson)}
    \cup {Reply("response", s, BadJson) : s \in Statuses \ {200}}
    \cup {Reply("response", 200, b) : b \in RunBodies}
SubmitReplies ==
    {Reply("timeout", 0, "bad"), Reply("error", 0, "bad")}
    \cup {Reply("response", s, "bad") : s \in Statuses \ {200}}
    \cup {Reply("response", 200, b) : b \in SubmitBodies}

\* a retry loop in which a rate-limited attempt is repeated without
\* counting as an attempt
RetryLoopStep_RateLimitNotCounted(a) ==
    /\ requests' = requests + 1
    /\ outcomes' = Append(outcomes, Classify(a.kind))
    /\ last_kind' = a.kind
    /\ dl_calls' = a.dl_calls
    /\ downloads' = a.downloads
    /\ dumps' = a.dumps
    /\ attempt_order' = IF attempt = 0 THEN Append(attempt_order, row)
                        ELSE attempt_order
    /\ CASE a.control = "return" ->
              /\ ReturnFromGenerateImage(a.path)
              /\ UNCHANGED <<attempt, waits>>
         [] a.control = "break" ->
              /\ ReturnFromGenerateImage(None)
              /\ UNCHANGED <<attempt, waits>>
         [] a.control = "continue" ->
              /\ waits' = Append(waits, RateLimitWait(attempt))
              /\ UNCHANGED <<attempt, pc, result, returns, files>>
         [] OTHER ->
              /\ waits' = IF attempt < retry_count - 1
                          THEN Append(waits, BackoffWait(attempt)) ELSE waits
              /\ attempt' = attempt + 1
              /\ IF attempt + 1 < retry_count
                 THEN UNCHANGED <<pc, result, returns, files>>
                 ELSE ReturnFromGenerateImage(None)
    /\ UNCHANGED <<probe, script, mode, row, raised>>
    /\ UNCHANGED poll_vars
    /\ UNCHANGED batch_vars

\* the end of one iteration of the retry loop of generate_image: return,
\* break, continue after the rate-limit wait, or backoff and next attempt;
\* the loop falls through to "return None" after the last attempt
RetryLoopStep(a) ==
    /\ requests' = requests + 1
    /\ outcomes' = Append(outcomes, Classify(a.kind))
    /\ last_kind' = a.kind
    /\ dl_calls' = a.dl_calls
    /\ downloads' = a.downloads
    /\ dumps' = a.dumps
    /\ attempt_order' = IF attempt = 0 THEN Append(attempt_order, row)
                        ELSE attempt_order
    /\ CASE a.control = "return" ->
              /\ ReturnFromGenerateImage(a.path)
              /\ UNCHANGED <<attempt, waits>>
         [] a.control = "break" ->
              /\ ReturnFromGenerateImage(None)
              /\ UNCHANGED <<attempt, waits>>
         [] a.control = "continue" ->
              /\ waits' = Append(waits, RateLimitWait(attempt))
              /\ attempt' = attempt + 1
              /\ IF attempt + 1 < retry_count
                 THEN UNCHANGED <<pc, result, returns, files>>
                 ELSE ReturnFromGenerateImage(None)
         [] OTHER ->
              /\ waits' = IF attempt < retry_count - 1
                          THEN Append(waits, BackoffWait(attempt)) ELSE waits
              /\ attempt' = attempt + 1
              /\ IF attempt + 1 < retry_count
                 THEN UNCHANGED <<pc, result, returns, files>>
                 ELSE ReturnFromGenerateImage(None)
    /\ UNCHANGED <<probe, script, mode, row, raised>>
    /\ UNCHANGED poll_vars
    /\ UNCHANGED batch_vars

\* generate_image of qwen-image-plus.py: one attempt
QwenGenerateImage ==
    /\ pc = "gen" /\ script = "qwen" /\ attempt < retry_count
    /\ \E rp \in SyncReplies :
         \E dl \in IF rp.net = "response" /\ rp.status = 200 /\ QwenNeedsDownload(rp.body)
                   THEN Downloads ELSE {NoDownload} :
            RetryLoopStep(QwenAttempt(row, rp.net, rp.status, rp.body, dl))

\* generate_image of seedream3.0&4.0.py: one attempt
SeedreamGenerateImage ==
    /\ pc = "gen" /\ script = "seedream" /\ attempt < retry_count
    /\ \E rp \in SyncReplies :
         \E dl \in IF rp.net = "response" /\ rp.status = 200
                      /\ SeedreamNeedsDownload(rp.body)
                   THEN Downloads ELSE {NoDownload} :
            RetryLoopStep(SeedreamAttempt(row, rp.net, rp.status, rp.body, dl))

\* generate_image of wan2.5-t2i-preview.py, lines 255-262: create the task
WanSubmitStep(rp) ==
    /\ LET c == create_async_task(rp.net, rp.status, rp.body)
       IN  /\ outcomes' = Append(outcomes, Classify(c.kind))
           /\ last_kind' = c.kind
           /\ task_id' = c.task_id
           /\ IF Truthy(c.task_id)
              THEN /\ pc' = "poll"
                   /\ UNCHANGED <<result, returns, files>>
              ELSE ReturnFromGenerateImage(None)
    /\ requests' = requests + 1
    /\ attempt_order' = Append(attempt_order, row)
    /\ attempt' = 0
    /\ UNCHANGED <<probe, script, mode, row, raised, waits, dl_calls, downloads, dumps,
                   polls, prior_running, poll_waits, last_status, task_result>>
    /\ UNCHANGED batch_vars

\* the submit meets any of the replies
WanSubmit ==
    /\ pc = "submit" /\ script = "wan"
    /\ \E rp \in SubmitReplies : WanSubmitStep(rp)

\* a poll loop that runs one iteration more than range(max_retries)
PollLoopRuns_OneMore(a) == a <= max_retries

\* get_task_result, line 131: "for attempt in range(max_retries)" runs its
\* body for attempt a
PollLoopRuns(a) == a < max_retries

\* get_task_result: one status query; generate_image returns None when
\* get_task_result returns None (lines 264-269)
WanPollStep(reply) ==
    /\ LET p == PollStep(reply)
       IN  /\ last_status' = reply
           /\ prior_running' = (prior_running /\ (polls = 0 \/ last_status = "RUNNING"))
           /\ dumps' = p.dump
           /\ CASE p.control = "result" ->
                     /\ task_result' = "result"
                     /\ pc' = "extract"
                     /\ UNCHANGED <<attempt, poll_waits, result, returns, files>>
                [] p.control = "none" ->
                     /\ task_result' = None
                     /\ ReturnFromGenerateImage(None)
                     /\ UNCHANGED <<attempt, poll_waits>>
                [] OTHER ->
                     /\ poll_waits' = poll_waits + 1
                     /\ attempt' = attempt + 1
                     /\ task_result' = None
                     /\ IF PollLoopRuns(attempt + 1)
                        THEN UNCHANGED <<pc, result, returns, files>>
                        ELSE ReturnFromGenerateImage(None)
    /\ polls' = polls + 1
    /\ UNCHANGED <<probe, script, mode, row, raised, outcomes, last_kind, waits, requests,
                   dl_calls, downloads, task_id, attempt_order>>
    /\ UNCHANGED batch_vars

\* the status query meets any of the replies
WanPoll ==
    /\ pc = "poll" /\ script = "wan" /\ PollLoopRuns(attempt)
    /\ \E reply \in PollReplies : WanPollStep(reply)

\* generate_image of wan2.5-t2i-preview.py, lines 271-291: extract the image
\* from the task result and save it
WanExtractStep(payload, dl) ==
    /\ LET e == extract_image_from_result(payload, dl)
           s == SaveImage(row, e.image_data)
       IN  /\ outcomes' = Append(outcomes, Classify(s.kind))
           /\ last_kind' = s.kind
           /\ dl_calls' = e.dl_calls
           /\ downloads' = e.downloads
           /\ IF s.raised
              THEN /\ raised' = "generate_image"
                   /\ pc' = "crashed"
                   /\ UNCHANGED <<result, returns, files>>
              ELSE /\ ReturnFromGenerateImage(s.path)
                   /\ UNCHANGED raised
    /\ UNCHANGED <<probe, script, mode, row, attempt, waits, requests, dumps, attempt_order>>
    /\ UNCHANGED poll_vars
    /\ UNCHANGED batch_vars

\* the task result holds any of the payloads, the download meets any result
WanExtractAndSave ==
    /\ pc = "extract" /\ script = "wan"
    /\ \E payload \in Payloads :
         \E dl \in IF WanNeedsDownload(payload) THEN Downloads ELSE {NoDownload} :
            WanExtractStep(payload, dl)

\* a loop body that takes a row whose image file was already there before
\* the call as failed
BatchRecord_ExistingFileFails ==
    /\ pc = "returned" /\ mode = "batch"
    /\ LET before == {k \in 1..(Len(returns) - 1) : returns[k] = <<row, TRUE>>}
           o == RecordOutcome(success_rows, failed_rows, row.n,
                              IF before # {} THEN None ELSE result)
       IN  /\ success_rows' = o.success
           /\ failed_rows' = o.failed
    /\ delays' = delays + InterRowSleeps(delay, Len(texts))
    /\ i' = i + 1
    /\ pc' = IF i + 1 <= Len(texts) THEN "batch" ELSE "report"
    /\ UNCHANGED <<probe, script, mode, texts, delay, row, attempt, outcomes, last_kind,
                   waits, requests, dl_calls, downloads, dumps, result, raised,
                   files, attempt_order, returns, report, report_writes, ret>>
    /\ UNCHANGED poll_vars

\* a loop body that goes to the next row without recording the outcome
BatchRecord_NotRecorded ==
    /\ pc = "returned" /\ mode = "batch"
    /\ delays' = delays + InterRowSleeps(delay, Len(texts))
    /\ i' = i + 1
    /\ pc' = IF i + 1 <= Len(texts) THEN "batch" ELSE "report"
    /\ UNCHANGED <<probe, script, mode, texts, delay, row, attempt, outcomes, last_kind,
                   waits, requests, dl_calls, downloads, dumps, result, raised,
                   files, attempt_order, returns, report, report_writes, ret,
                   success_rows, failed_rows>>
    /\ UNCHANGED poll_vars

\* batch_generate, lines 291-300: record the outcome of the row, sleep, and
\* go to the next row or return the two lists
BatchRecord ==
    /\ pc = "returned" /\ mode = "batch"
    /\ LET o == RecordOutcome(success_rows, failed_rows, row.n, result)
       IN  /\ success_rows' = o.success
           /\ failed_rows' = o.failed
    /\ delays' = delays + InterRowSleeps(delay, Len(texts))
    /\ i' = i + 1
    /\ pc' = IF i + 1 <= Len(texts) THEN "batch" ELSE "report"
    /\ UNCHANGED <<probe, script, mode, texts, delay, row, attempt, outcomes, last_kind,
                   waits, requests, dl_calls, downloads, dumps, result, raised,
                   files, attempt_order, returns, report, report_writes, ret>>
    /\ UNCHANGED poll_vars

\* generate_from_excel, lines 323-332: write the report, return the result
GenerateReport ==
    /\ pc = "report"
    /\ report' = generate_report(success_rows, failed_rows)
    /\ report_writes' = report_writes + 1
    /\ ret' = BatchResult(texts, success_rows, failed_rows)
    /\ pc' = "done"
    /\ UNCHANGED <<probe, script, mode, texts, delay, i, row, success_rows, failed_rows,
                   attempt, outcomes, last_kind, waits, requests, dl_calls,
                   downloads, dumps, result, raised, files, delays, attempt_order,
                   returns>>
    /\ UNCHANGED poll_vars

\* test_single_image, after generate_image returned
TestSingleImageDone ==
    /\ pc = "returned" /\ mode = "single"
    /\ pc' = "done"
    /\ UNCHANGED <<probe, script, mode, row, attempt, outcomes, last_kind, waits,
                   requests, dl_calls, downloads, dumps, result, raised, files,
                   attempt_order, returns>>
    /\ UNCHANGED poll_vars
    /\ UNCHANGED batch_vars

Next ==
    \/ MainFileMissing
    \/ GenerateFromExcelReadFails
    \/ GenerateFromExcelEmpty
    \/ GenerateFromExcelRead
    \/ BatchNext
    \/ TestSingleImage
    \/ QwenGenerateImage
    \/ SeedreamGenerateImage
    \/ WanSubmit
    \/ WanPoll
    \/ WanExtractAndSave
    \/ BatchRecord
    \/ GenerateReport
    \/ TestSingleImageDone

Spec == Init /\ [][Next]_vars

TypeOK ==
    /\ script \in Scripts
    /\ attempt \in 0..max_retries
    /\ Len(outcomes) <= retry_count

(* ------------- the same bytes, inline and behind a URL ----------------- *)
\* the byte strings an API hands over, inline or as the body of the download
ProbeBytes == Bytes \cup {"imgB"}
\* the base64 text the API sends for the bytes b
B64Encode(b) == IF b = "" THEN "" ELSE "b64:" \o b

\* the places of a response where each script looks for inline base64 ...
InlineShapes(sc) ==
    CASE sc = "qwen" -> {"images", "output", "data"}
      [] sc = "seedream" -> {"images", "data"}
      [] OTHER -> {"results", "output"}
\* ... and for an image URL
UrlShapes(sc) ==
    CASE sc = "qwen" -> {"output", "data"}
      [] sc = "seedream" -> {"data"}
      [] OTHER -> {"results"}

\* a response (for wan: a task result) that carries text v in one place
ShapeBody(sc, shape, v, is_url) ==
    IF sc = "wan"
    THEN IF shape = "results"
         THEN [results |-> [t |-> "item", has_url |-> is_url,
                            url |-> IF is_url THEN v ELSE "",
                            has_image |-> ~is_url,
                            image |-> IF is_url THEN "" ELSE v],
               image |-> [t |-> "absent", v |-> ""]]
         ELSE [results |-> [t |-> "absent", has_url |-> FALSE, url |-> "",
                            has_image |-> FALSE, image |-> ""],
               image |-> [t |-> "str", v |-> v]]
    ELSE CASE shape = "images" ->
                Body("dict", [t |-> "str", v |-> v], AbsentOutput, AbsentData)
           [] shape = "output" ->
                Body("dict", AbsentImages, [t |-> "str", v |-> v], AbsentData)
           [] OTHER ->
                Body("dict", AbsentImages, AbsentOutput,
                     [t |-> "item", has_url |-> is_url,
                      url |-> IF is_url THEN v ELSE "",
                      has_b64 |-> ~is_url, b64 |-> IF is_url THEN "" ELSE v])

\* what one stage of generate_image makes of a 200 response (for wan: of a
\* task result): the bytes it obtained, and what it did with them
RunPath(sc, r, body, dl) ==
    CASE sc = "qwen" ->
           LET x == QwenExtract(body)
               a == QwenAttempt(r, "response", 200, body, dl)
           IN  [image |-> IF x.raised THEN None ELSE QwenDownload(x, dl).image_data,
                kind |-> a.kind, path |-> a.path, control |-> a.control]
      [] sc = "seedream" ->
           LET a == SeedreamAttempt(r, "response", 200, body, dl)
           IN  [image |-> SeedreamExtract(body, dl).image_data,
                kind |-> a.kind, path |-> a.path, control |-> a.control]
      [] OTHER ->
           LET e == extract_image_from_result(body, dl)
               sv == SaveImage(r, e.image_data)
           IN  [image |-> e.image_data, kind |-> sv.kind, path |-> sv.path,
                control |-> IF sv.raised THEN "raise" ELSE "return"]

\* a path that has not run
NoOut == [kind |-> "pending"]
PathRows == {IntRow(1), IntRow(12), StrRow("test_single")}

PathsInit ==
    /\ script \in Scripts
    /\ mode = "batch"
    /\ InitRun
    /\ \E b \in ProbeBytes, r \in PathRows, sh \in InlineShapes(script),
          us \in UrlShapes(script) :
          probe = [fn |-> "paths", b |-> b, r |-> r, inline |-> sh, url |-> us,
                   out_inline |-> NoOut, out_url |-> NoOut]

\* the response carries the bytes inline, as base64
InlinePath ==
    /\ probe.out_inline = NoOut
    /\ probe' = [probe EXCEPT !.out_inline =
                    RunPath(script, probe.r,
                            ShapeBody(script, probe.inline, B64Encode(probe.b), FALSE),
                            NoDownload)]
    /\ UNCHANGED run_vars

\* the response carries a URL, and the download returns the bytes
UrlPath ==
    /\ probe.out_url = NoOut
    /\ \E u \in Urls :
          probe' = [probe EXCEPT !.out_url =
                      RunPath(script, probe.r,
                              ShapeBody(script, probe.url, u, TRUE),
                              Download("response", 200, probe.b))]
    /\ UNCHANGED run_vars

PathsNext ==
    \/ InlinePath
    \/ UrlPath

PathsSpec == PathsInit /\ [][PathsNext]_vars

(* ---------------------- the Row Source on its own ---------------------- *)
\* the cells of the designated column: texts with and without surrounding
\* blanks, an empty text, a blank, spellings of nan and None, an empty cell
ProbeCells ==
    {TextCell(<<"a">>), TextCell(<<" ", "a", " ">>), TextCell(<<>>),
     TextCell(<<" ">>), TextCell(<<"n", "a", "n">>), TextCell(<<"N", "a", "N">>),
     TextCell(<<"N", "o", "n", "e">>), TextCell(<<"n", "o", "n", "e">>),
     TextCell(<<" ", "N", "o", "n", "e", " ">>), NaNCell}
\* a cell of another column
FillerCell == TextCell(<<"x">>)
\* the 1-based column the cells are put in: the designated one when the
\* index is in range for the width, the first one otherwise
ProbeColumn(column_index, width) ==
    IF 0 <= column_index /\ column_index < width THEN column_index + 1
    ELSE IF column_index < 0 /\ 0 - width <= column_index
    THEN width + column_index + 1
    ELSE 1
\* the data rows of a sheet of the given width holding cells in one column
ProbeSheet(cells, width, column_index) ==
    [k \in 1..Len(cells) |->
        [c \in 1..width |->
            IF c = ProbeColumn(column_index, width) THEN cells[k] ELSE FillerCell]]

\* the three scripts hold the same read_texts_from_excel
RowsInit ==
    /\ script = "qwen"
    /\ mode = "batch"
    /\ InitRun
    /\ \E n \in 0..MaxProbeRows, width \in 1..MaxCols,
          column_index \in ColumnIndexes, has_header \in BOOLEAN :
          \E cells \in [1..n -> ProbeCells] :
             probe = [fn |-> "rows", cells |-> cells, width |-> width,
                      column_index |-> column_index, has_header |-> has_header,
                      out |-> NoOut]

\* read_texts_from_excel returns the list of (row_num, text)
RowsRead ==
    /\ probe.out = NoOut
    /\ LET o == read_texts_from_excel(
                    ProbeSheet(probe.cells, probe.width, probe.column_index),
                    probe.column_index, probe.has_header)
       IN  /\ o.ok
           /\ probe' = [probe EXCEPT !.out = o]
    /\ UNCHANGED run_vars

\* read_texts_from_excel prints the exception and raises it again
RowsReadRaises ==
    /\ probe.out = NoOut
    /\ LET o == read_texts_from_excel(
                    ProbeSheet(probe.cells, probe.width, probe.column_index),
                    probe.column_index, probe.has_header)
       IN  /\ ~o.ok
           /\ probe' = [probe EXCEPT !.out = o]
    /\ UNCHANGED run_vars

RowsNext ==
    \/ RowsRead
    \/ RowsReadRaises

RowsSpec == RowsInit /\ [][RowsNext]_vars

(* ------------------ one 200 response, of any shape --------------------- *)
\* one attempt of a synchronous script on a 200 response with a JSON object
\* body: the bytes it obtained and the record of the attempt
ParseResponse(sc, r, body, dl) ==
    [image |-> RunPath(sc, r, body, dl).image,
     att |-> IF sc = "qwen" THEN QwenAttempt(r, "response", 200, body, dl)
             ELSE SeedreamAttempt(r, "response", 200, body, dl)]

ParseInit ==
    /\ script \in SyncScripts
    /\ mode = "batch"
    /\ InitRun
    /\ \E body \in DictBodies, dl \in Downloads :
          probe = [fn |-> "parse", r |-> IntRow(1), body |-> body, dl |-> dl,
                   out |-> NoOut]

\* generate_image of qwen-image-plus.py handles the response
ParseQwen ==
    /\ script = "qwen" /\ probe.out = NoOut
    /\ probe' = [probe EXCEPT !.out = ParseResponse("qwen", probe.r, probe.body, probe.dl)]
    /\ UNCHANGED run_vars

\* generate_image of seedream3.0&4.0.py handles the response
ParseSeedream ==
    /\ script = "seedream" /\ probe.out = NoOut
    /\ probe' = [probe EXCEPT !.out =
                    ParseResponse("seedream", probe.r, probe.body, probe.dl)]
    /\ UNCHANGED run_vars

ParseNext ==
    \/ ParseQwen
    \/ ParseSeedream

ParseSpec == ParseInit /\ [][ParseNext]_vars

(* ------------- batch_generate twice with the same adapter -------------- *)
\* the row sequence of the two runs
TwinTexts == <<<<2, <<"a">>>>, <<3, <<"a">>>>>>
\* what a deterministic synchronous API answers: an image behind a URL whose
\* download succeeds, 429, 401, or no answer in time
TwinSyncReplies ==
    {[rp |-> Reply("response", 200,
                   Body("dict", AbsentImages, AbsentOutput,
                        [t |-> "item", has_url |-> TRUE, url |-> "http://img",
                         has_b64 |-> FALSE, b64 |-> ""])),
      dl |-> Download("response", 200, "imgA")],
     [rp |-> Reply("response", 429, BadJson), dl |-> NoDownload],
     [rp |-> Reply("response", 401, BadJson), dl |-> NoDownload],
     [rp |-> Reply("timeout", 0, BadJson), dl |-> NoDownload]}
\* a deterministic synchronous adapter: the answer to the request for the
\* row at a position of the list and an attempt
SyncAdapters == [1..Len(TwinTexts) -> [0..(retry_count - 1) -> TwinSyncReplies]]
\* what a deterministic asynchronous API does with the task of one row: the
\* answer to the submit, RUNNING for the first status queries and then one
\* status for good, and the task result with the answer to its download
WanPlans ==
    {[submit |-> sb, running |-> n, terminal |-> t, payload |-> pl.payload, dl |-> pl.dl] :
        sb \in {Reply("response", 200, "task_id"), Reply("response", 500, "bad")},
        n \in {0, 1},
        t \in {"SUCCEEDED", "FAILED", "RUNNING"},
        pl \in {[payload |-> ShapeBody("wan", "results", "http://img", TRUE),
                 dl |-> Download("response", 200, "imgA")],
                [payload |-> ShapeBody("wan", "results", "http://img", TRUE),
                 dl |-> Download("response", 404, "junk")]}}
WanAdapters == [1..Len(TwinTexts) -> WanPlans]

TwinInit ==
    /\ script \in Scripts
    /\ mode = "batch"
    /\ InitRun
    /\ \E ad \in IF script = "wan" THEN WanAdapters ELSE SyncAdapters :
          probe = [fn |-> "twin", run |-> 0, adapter |-> ad, first |-> NoOut]

\* batch_generate(texts) is called for the first time
TwinStart ==
    /\ pc = "start" /\ probe.run = 0
    /\ probe' = [probe EXCEPT !.run = 1]
    /\ texts' = TwinTexts
    /\ i' = 1
    /\ pc' = "batch"
    /\ UNCHANGED <<script, mode, delay, row, success_rows, failed_rows,
                   attempt, outcomes, last_kind, waits, requests, dl_calls, downloads,
                   dumps, polls, prior_running, poll_waits, last_status, task_id,
                   task_result, result, raised, files, delays, attempt_order,
                   returns, report, report_writes, ret>>

\* one attempt of generate_image of a synchronous script, answered by the
\* adapter
TwinGenerateImage ==
    /\ pc = "gen" /\ script \in SyncScripts /\ attempt < retry_count
    /\ LET a == probe.adapter[i][attempt]
       IN  RetryLoopStep(IF script = "qwen"
                         THEN QwenAttempt(row, a.rp.net, a.rp.status, a.rp.body, a.dl)
                         ELSE SeedreamAttempt(row, a.rp.net, a.rp.status, a.rp.body, a.dl))

\* the stages of generate_image of wan2.5-t2i-preview.py, answered by the
\* adapter
TwinSubmit ==
    /\ pc = "submit" /\ script = "wan"
    /\ WanSubmitStep(probe.adapter[i].submit)

TwinPoll ==
    /\ pc = "poll" /\ script = "wan" /\ PollLoopRuns(attempt)
    /\ WanPollStep(IF attempt < probe.adapter[i].running THEN "RUNNING"
                   ELSE probe.adapter[i].terminal)

TwinExtract ==
    /\ pc = "extract" /\ script = "wan"
    /\ WanExtractStep(probe.adapter[i].payload, probe.adapter[i].dl)

\* batch_generate returned its two lists and is called again, on the same
\* generator object and the same output directory
TwinSecondRun ==
    /\ pc = "report" /\ probe.run = 1
    /\ probe' = [probe EXCEPT !.run = 2,
                              !.first = [success |-> success_rows, failed |-> failed_rows]]
    /\ i' = 1
    /\ success_rows' = <<>>
    /\ failed_rows' = <<>>
    /\ pc' = "batch"
    /\ UNCHANGED <<script, mode, texts, delay, row,
                   attempt, outcomes, last_kind, waits, requests, dl_calls, downloads,
                   dumps, polls, prior_running, poll_waits, last_status, task_id,
                   task_result, result, raised, files, delays, attempt_order,
                   returns, report, report_writes, ret>>

TwinNext ==
    \/ TwinStart
    \/ BatchNext
    \/ TwinGenerateImage
    \/ TwinSubmit
    \/ TwinPoll
    \/ TwinExtract
    \/ BatchRecord
    \/ TwinSecondRun

TwinSpec == TwinInit /\ [][TwinNext]_vars

(* ------------------------------- claims -------------------------------- *)
\* positions inside a generate_image call
InCall == {"gen", "submit", "poll", "extract"}
\* positions after the batch loop
AfterBatch == {"report", "done"}
\* the row numbers of texts, in order
RowNumbers == [k \in 1..Len(texts) |-> texts[k][1]]
\* how many rows batch_generate has recorded
Recorded == IF pc = "returned" THEN Len(returns) - 1 ELSE Len(returns)
AllAre(seq, v) == \A k \in 1..Len(seq) : seq[k] = v
RECURSIVE RowsWith(_, _, _)
\* the rows among the first n returns whose success flag is ok, in order
RowsWith(rs, n, ok) ==
    IF n = 0 THEN <<>>
    ELSE IF rs[n][2] = ok
         THEN Append(RowsWith(rs, n - 1, ok), rs[n][1].n)
         ELSE RowsWith(rs, n - 1, ok)
InSeq(x, seq) == \E k \in 1..Len(seq) : seq[k] = x
Count(x, seq) == Cardinality({k \in 1..Len(seq) : seq[k] = x})

\* C1: in each script, once an attempt of a row met HTTP 401 or 400, no further
\* generation request is made for the row and the row's outcome is failure
C1_NonRetryableShortCircuits ==
    mode = "batch" =>
        \A k \in 1..Len(outcomes) :
            outcomes[k] \in {"UNAUTHORIZED", "BAD_REQUEST"} =>
                /\ k = Len(outcomes)
                /\ requests = k
                /\ pc \notin InCall
                /\ ~Truthy(result)

\* C2: in each script, a row whose first two requests meet HTTP 429 gets a
\* third request, and 429, 429, valid image ends in success after exactly
\* three requests
C2_RateLimitedTwiceThenSuccess ==
    mode = "batch" =>
        /\ (Len(outcomes) \in 1..2 /\ AllAre(outcomes, "RATE_LIMITED")) => pc \in InCall
        /\ outcomes = <<"RATE_LIMITED", "RATE_LIMITED", "IMAGE">> =>
              (requests = 3 /\ Truthy(result))

\* C3: in each script, a row whose every request times out gets exactly
\* retry_count = 3 requests and then the failure outcome
C3_TimeoutsExhaustThreeAttempts ==
    mode = "batch" =>
        /\ (Len(outcomes) \in 1..(retry_count - 1) /\ AllAre(outcomes, "TIMEOUT")) =>
              pc \in InCall
        /\ (Len(outcomes) = retry_count /\ AllAre(outcomes, "TIMEOUT")) =>
              (requests = retry_count /\ pc \notin InCall /\ ~Truthy(result))

\* C4: no exception leaves generate_image, for every row identifier a caller
\* of the repository passes
C4_NoExceptionEscapes == raised # "generate_image"

\* C5: batch_generate attempts the rows in input order; success_rows are the
\* rows whose generate_image call succeeded and failed_rows those whose call
\* failed, both in input order
C5_BatchPartitionInOrder ==
    mode = "batch" =>
        /\ Len(attempt_order) <= Len(texts)
        /\ \A k \in 1..Len(attempt_order) : attempt_order[k] = IntRow(RowNumbers[k])
        /\ \A k \in 1..Len(returns) : returns[k][1] = IntRow(RowNumbers[k])
        /\ success_rows = RowsWith(returns, Recorded, TRUE)
        /\ failed_rows = RowsWith(returns, Recorded, FALSE)
        /\ pc \in AfterBatch =>
              /\ Recorded = Len(texts)
              /\ Len(attempt_order) = Len(texts)

\* C5 witness: rows 1,2,3 with only row 2 failing
C5_Witness ==
    /\ pc = "done"
    /\ RowNumbers = <<1, 2, 3>>
    /\ attempt_order = <<IntRow(1), IntRow(2), IntRow(3)>>
    /\ success_rows = <<1, 3>>
    /\ failed_rows = <<2>>

\* C6: whatever made a row fail, the row is recorded as failed and the batch
\* goes on: it never stops before the last row, and at its end every row of
\* the input was attempted
C6_BatchNeverAborts ==
    (mode = "batch" /\ texts # <<>>) =>
        /\ pc \in InCall \cup {"batch", "returned", "report", "done"}
        /\ pc = "batch" => i <= Len(texts)
        /\ pc = "gen" => attempt < retry_count
        /\ pc = "poll" => attempt < max_retries
        /\ \A k \in 1..Recorded :
              ~returns[k][2] => InSeq(returns[k][1].n, failed_rows)
        /\ pc \in AfterBatch =>
              \A k \in 1..Len(texts) : InSeq(IntRow(RowNumbers[k]), attempt_order)

\* C6 witness: a row failed with an invalid credential, is recorded, and the
\* batch is about to call generate_image for the next row
C6_Witness ==
    /\ pc = "batch"
    /\ i <= Len(texts)
    /\ last_kind = "UNAUTHORIZED"
    /\ InSeq(row.n, failed_rows)

\* C7: with delay_seconds > 0 a batch of n >= 1 rows performs exactly n-1
\* inter-row delays: none after the last row
C7_NoDelayAfterLastRow ==
    (pc \in AfterBatch /\ delay > 0) => delays = Len(texts) - 1

\* C8: success_rows and failed_rows are disjoint, every finished row is in
\* exactly one of them exactly once, and at the end their lengths add up to
\* the number of rows read, the total returned and the total of the report
C8_ExactlyOneOutcomePerRow ==
    mode = "batch" =>
        /\ \A k \in 1..Len(texts) :
              Count(RowNumbers[k], success_rows) + Count(RowNumbers[k], failed_rows)
                 = (IF k <= Recorded THEN 1 ELSE 0)
        /\ \A r \in 1..(MaxRows + 2) : ~(InSeq(r, success_rows) /\ InSeq(r, failed_rows))
        /\ Len(success_rows) + Len(failed_rows) = Recorded
        /\ pc = "report" => Len(success_rows) + Len(failed_rows) = Len(texts)
        /\ pc = "done" =>
              /\ Len(success_rows) + Len(failed_rows) = Len(texts)
              /\ ret.total = Len(texts)
              /\ ret.success + ret.failed = ret.total
              /\ report.total = Len(texts)
              /\ report.success + report.failed = report.total

\* C8 witness: a finished batch of three rows with both lists not empty
C8_Witness ==
    /\ pc = "done"
    /\ Len(texts) = 3
    /\ success_rows # <<>>
    /\ failed_rows # <<>>
    /\ report.total = 3
    /\ ret.total = 3

C10_FailedAbortsImmediately ==
    (script = "wan" /\ last_status = "FAILED") =>
        /\ pc \notin InCall
        /\ task_result = None
        /\ ~Truthy(result)
        /\ poll_waits = polls - 1
        /\ attempt = polls - 1
        /\ Len(outcomes) = 1
        /\ dl_calls = 0 /\ downloads = 0
        /\ row.kind = "int" => RowFileName(row).name \notin files
        /\ (mode = "batch" /\ pc \in {"batch", "report", "done"}) =>
              InSeq(row.n, failed_rows)

\* C10 witness: FAILED on the first poll
C10_Witness ==
    /\ script = "wan"
    /\ last_status = "FAILED"
    /\ polls = 1
    /\ poll_waits = 0
    /\ pc = "returned"

\* the results of a status query after which get_task_result keeps polling
NonTerminalReplies == PollReplies \ {"SUCCEEDED", "FAILED"}

\* C11: whatever the status queries of wan2.5-t2i-preview.py meet, one
\* generate_image call issues at most max_retries of them: while the poll loop
\* runs, every query so far consumed one iteration and the budget is not used
\* up, and once max_retries queries have met no terminal status the loop is
\* left, get_task_result has returned None and generate_image has returned None.
C11_PollingIsBounded ==
    script = "wan" =>
        /\ polls <= max_retries
        /\ pc = "poll" => (polls = attempt /\ polls < max_retries)
        /\ pc = "extract" => last_status = "SUCCEEDED"
        /\ (polls = max_retries /\ last_status \in NonTerminalReplies) =>
               /\ pc \notin InCall
               /\ task_result = None
               /\ ~Truthy(result)
               /\ poll_waits = max_retries

\* a call whose max_retries status queries met several non-terminal results,
\* the last one PENDING, and which returned None
C11_Witness ==
    /\ script = "wan" /\ pc = "returned"
    /\ polls = max_retries
    /\ ~prior_running
    /\ last_status = "PENDING"
    /\ result = None

\* C12: generate_image returns a file path only when the bytes of the last
\* stage opened as an image and were written to row_<zero-padded row>.png: a
\* returned path is that file name and the file exists; an attempt whose bytes
\* do not open as an image never makes the call succeed, although the response
\* had status 200; every image file of the run belongs to a call that returned
\* success, and no row of failed_rows has its image file written.
C12_PathOnlyForValidImage ==
    /\ Truthy(result) =>
          /\ last_kind = "IMAGE"
          /\ RowFileName(row).ok
          /\ result = RowFileName(row).name
          /\ result \in files
    /\ (pc = "returned" /\ last_kind = "BAD_IMAGE") =>
          /\ result = None
          /\ returns[Len(returns)] = <<row, FALSE>>
    /\ \A f \in files :
          \E k \in 1..Len(returns) :
             returns[k][2] /\ RowFileName(returns[k][1]).name = f
    /\ \A k \in 1..Len(failed_rows) :
          RowFileName(IntRow(failed_rows[k])).name \notin files

\* a batch in which a row whose three 200 responses all carried bytes that
\* are no image was recorded as failed, next to a row whose image was written
C12_Witness ==
    /\ script = "qwen" /\ mode = "batch" /\ pc \in {"batch", "report"}
    /\ last_kind = "BAD_IMAGE" /\ requests = retry_count
    /\ failed_rows # <<>> /\ failed_rows[Len(failed_rows)] = row.n
    /\ "row_0001.png" \in files

\* C13: for the same bytes b, a response that carries b inline as base64 and
\* a response that carries a URL whose download returns b give the same
\* obtained bytes, the same saved file and the same outcome of the stage, in
\* each of the three scripts and for each place a script reads them from.
C13_UrlAndInlineAgree ==
    (probe.fn = "paths" /\ probe.out_inline # NoOut /\ probe.out_url # NoOut) =>
        /\ probe.out_inline = probe.out_url
        /\ probe.out_url.image = probe.b

\* both paths ran for an image, inline in output...image and as data[0].url,
\* and both saved it
C13_Witness ==
    /\ probe.fn = "paths" /\ script = "qwen"
    /\ probe.b = "imgB" /\ probe.inline = "output" /\ probe.url = "data"
    /\ probe.out_inline # NoOut /\ probe.out_url # NoOut
    /\ probe.out_url.path = "row_0012.png"
    /\ probe.out_inline.path = "row_0012.png"

\* the first of the three places of a body that is there: a non-empty images
\* list, an output key, a non-empty data list
FirstShape(body) ==
    CASE body.images.t \notin {"absent", "empty"} -> "images"
      [] body.images.t \in {"absent", "empty"} /\ body.output.t # "absent" -> "output"
      [] body.images.t \in {"absent", "empty"} /\ body.output.t = "absent"
         /\ body.data.t \notin {"absent", "empty"} -> "data"
      [] OTHER -> "none"
\* the body with every place but one removed
Only(body, shape) ==
    Body("dict",
         IF shape = "images" THEN body.images ELSE AbsentImages,
         IF shape = "output" THEN body.output ELSE AbsentOutput,
         IF shape = "data" THEN body.data ELSE AbsentData)

\* C14: qwen-image-plus.py reads a 200 response in the order images[0],
\* output.choices[0].message.content[0].image, data[0]: the attempt does
\* exactly what it does on the response reduced to the first place that is
\* there, so no later place has any influence; inline base64 in images[0] is
\* taken without any download, whatever output and data hold; a URL in
\* output...image is taken before data[0]; and a URL that was found is
\* fetched by one download whose 200 body becomes the image.
C14_FirstShapeWins ==
    (probe.fn = "parse" /\ script = "qwen" /\ probe.out # NoOut) =>
        LET body == probe.body
            dl == probe.dl
            out == probe.out
        IN  /\ out = ParseResponse("qwen", probe.r, Only(body, FirstShape(body)), dl)
            /\ (body.images.t = "str" /\ B64Decode(body.images.v).ok) =>
                   /\ out.image = B64Decode(body.images.v).bytes
                   /\ out.att.downloads = 0
            /\ (body.images.t \in {"absent", "empty"} /\ body.output.t = "str"
                 /\ StartsWithHttp(body.output.v)) =>
                   /\ out.att.downloads = 1
                   /\ (dl.net = "response" /\ dl.status = 200) => out.image = dl.content
            /\ (body.images.t \in {"absent", "empty"} /\ body.output.t = "absent"
                 /\ body.data.t = "item" /\ body.data.has_url) =>
                   /\ out.att.downloads = 1
                   /\ (dl.net = "response" /\ dl.status = 200) => out.image = dl.content

\* a response with all three places filled, images[0] holding a valid image
\* and data[0] a URL, whose image was saved from images[0] without a download
C14_Witness ==
    /\ probe.fn = "parse" /\ script = "qwen" /\ probe.out # NoOut
    /\ probe.body.images = [t |-> "str", v |-> "b64:imgA"]
    /\ probe.body.output = [t |-> "str", v |-> "http://img"]
    /\ probe.body.data.t = "item" /\ probe.body.data.has_url
    /\ probe.dl = Download("response", 200, "junk")
    /\ probe.out.att.path = "row_0001.png"
    /\ probe.out.att.downloads = 0

\* the positions of the characters of s that are no whitespace
NonBlank(s) == {k \in 1..Len(s) : s[k] \notin Whitespace}
\* s without leading and trailing whitespace
Trimmed(s) ==
    IF NonBlank(s) = {} THEN <<>>
    ELSE SubSeq(s, CHOOSE k \in NonBlank(s) : \A h \in NonBlank(s) : k <= h,
                   CHOOSE k \in NonBlank(s) : \A h \in NonBlank(s) : h <= k)
\* the spellings of nan
NanTexts == {<<x, y, z>> : x \in {"n", "N"}, y \in {"a", "A"}, z \in {"n", "N"}}
\* the skip predicate: an empty cell, or a text that after trimming is
\* empty, a spelling of nan, or None
SkipCell(cell) ==
    \/ cell.t = "nan"
    \/ Trimmed(cell.v) = <<>>
    \/ Trimmed(cell.v) \in NanTexts
    \/ Trimmed(cell.v) = <<"N", "o", "n", "e">>
\* the column index designates a column of a row of that width
InRange(column_index, width) == 0 - width <= column_index /\ column_index < width
\* the positions of the cells that are not skipped, and the k-th of them
KeptPositions == {j \in 1..Len(probe.cells) : ~SkipCell(probe.cells[j])}
NthKept(k) ==
    CHOOSE j \in KeptPositions : Cardinality({h \in KeptPositions : h < j}) = k - 1

\* C15: for an in-range column, read_texts_from_excel outputs no cell that
\* satisfies the skip predicate and outputs every other cell exactly once, in
\* order, with its trimmed text.
C15_SkipPredicate ==
    (probe.fn = "rows" /\ probe.out # NoOut
     /\ InRange(probe.column_index, probe.width)) =>
        /\ probe.out.ok
        /\ Len(probe.out.texts) = Cardinality(KeptPositions)
        /\ \A k \in 1..Len(probe.out.texts) :
              /\ probe.out.texts[k][2] = Trimmed(probe.cells[NthKept(k)].v)
              /\ ~SkipCell(TextCell(probe.out.texts[k][2]))

\* a sheet with a padded text, an empty cell and the spelling NaN, read
\* through the last column by a negative index
C15_Witness ==
    /\ probe.fn = "rows" /\ probe.out # NoOut
    /\ probe.column_index = 0 - 1
    /\ probe.cells = <<TextCell(<<" ", "a", " ">>), NaNCell, TextCell(<<"N", "a", "N">>)>>
    /\ probe.out.ok
    /\ Len(probe.out.texts) = 1
    /\ probe.out.texts[1][2] = <<"a">>

\* the number of the first data row
FirstRowNumber == IF probe.has_header THEN 2 ELSE 1

\* C16: the data row at 0-based position p is numbered p + 2 with a header
\* row and p + 1 without, whether or not rows before it were skipped: the
\* k-th output carries the number of the k-th kept cell, the numbers are
\* strictly increasing, and a kept first data row is numbered 2 or 1.
C16_RowNumbering ==
    (probe.fn = "rows" /\ probe.out # NoOut
     /\ InRange(probe.column_index, probe.width)) =>
        LET out == probe.out.texts
        IN  /\ \A k \in 1..Len(out) : out[k][1] = (NthKept(k) - 1) + FirstRowNumber
            /\ \A k \in 1..(Len(out) - 1) : out[k][1] < out[k + 1][1]
            /\ (Len(out) > 0 /\ 1 \in KeptPositions) => out[1][1] = FirstRowNumber

\* a sheet with a header row whose second data row is skipped: the kept
\* rows are numbered 2 and 4
C16_Witness ==
    /\ probe.fn = "rows" /\ probe.out # NoOut
    /\ probe.has_header /\ probe.column_index = 0
    /\ probe.cells = <<TextCell(<<"a">>), TextCell(<<" ">>), TextCell(<<"n", "o", "n", "e">>)>>
    /\ probe.out.ok
    /\ probe.out.texts = <<<<2, <<"a">>>>, <<4, <<"n", "o", "n", "e">>>>>>

\* C17: whenever the column index is out of range for the rows of the sheet,
\* too large or negative beyond the width, the read returns normally and
\* outputs nothing.
C17_OutOfRangeNeverFails ==
    (probe.fn = "rows" /\ probe.out # NoOut
     /\ ~InRange(probe.column_index, probe.width)) =>
        /\ probe.out.ok
        /\ probe.out.texts = <<>>

\* a column index that is too large: the rows are skipped and the read
\* returns an empty list
C17_Witness ==
    /\ probe.fn = "rows" /\ probe.out # NoOut
    /\ probe.column_index >= probe.width
    /\ Len(probe.cells) = 2
    /\ probe.out.ok /\ probe.out.texts = <<>>

\* C18: when main() finds no spreadsheet file, or read_texts_from_excel
\* raises, the run has ended without a generation request, a status query or
\* a download, without an image file and without a report.
C18_InputErrorBeforeNetwork ==
    (pc = "aborted" \/ (pc = "crashed" /\ raised = "read_texts_from_excel")) =>
        /\ attempt_order = <<>> /\ returns = <<>>
        /\ requests = 0 /\ polls = 0
        /\ dl_calls = 0 /\ downloads = 0
        /\ files = {}
        /\ report_writes = 0 /\ report = NoReport
        /\ ~ENABLED Next

\* a run of wan2.5-t2i-preview.py that ended with the exception of
\* read_texts_from_excel
C18_Witness ==
    /\ script = "wan" /\ mode = "batch"
    /\ pc = "crashed" /\ raised = "read_texts_from_excel"

\* C19: in a batch the report is written at most once, it is written when
\* and only when the run is done, which is after every row was recorded; a
\* batch that has started does not stop before; the report lists every row
\* whose generate_image call failed in its failed section and every other
\* row in its success section.
C19_ReportOnceAfterAllRows ==
    /\ report_writes <= 1
    /\ report_writes = 1 <=> (pc = "done" /\ mode = "batch")
    /\ (mode = "batch" /\ pc \in InCall \cup {"batch", "returned", "report"}) =>
          ENABLED Next
    /\ report_writes = 1 =>
          /\ texts # <<>>
          /\ Len(returns) = Len(texts)
          /\ report.total = Len(texts)
          /\ Len(report.success_lines) + Len(report.failed_lines) = Len(texts)
          /\ \A k \in 1..Len(returns) :
                LET n == returns[k][1].n
                IN  /\ n = texts[k][1]
                    /\ returns[k][2] <=>
                          \E j \in 1..Len(report.success_lines) :
                             report.success_lines[j][1] = n
                    /\ ~returns[k][2] <=> InSeq(n, report.failed_lines)

\* a finished batch of three rows whose report has both sections
C19_Witness ==
    /\ mode = "batch" /\ pc = "done" /\ report_writes = 1
    /\ Len(texts) = 3
    /\ Len(report.failed_lines) = 2
    /\ Len(report.success_lines) = 1

\* C20: the rows of a batch are handled one after the other: while a
\* generate_image call is in progress it is the call for row i, every row
\* before it has returned and is in success_rows or failed_rows, and rows
\* make their first request in the order of the list, each only after the
\* rows before it were recorded.
C20_RowsInSequence ==
    mode = "batch" =>
        LET recorded == Len(success_rows) + Len(failed_rows)
        IN  /\ Len(attempt_order) <= recorded + 1
            /\ \A k \in 1..Len(attempt_order) : attempt_order[k] = IntRow(texts[k][1])
            /\ pc \in InCall =>
                  /\ recorded = i - 1
                  /\ Len(returns) = i - 1
                  /\ row = IntRow(texts[i][1])
            /\ \A k \in 1..recorded :
                  /\ k <= Len(returns)
                  /\ IF returns[k][2] THEN InSeq(texts[k][1], success_rows)
                     ELSE InSeq(texts[k][1], failed_rows)

\* the third row of a batch is being polled after the first two rows were
\* recorded, one as failed and one as succeeded
C20_Witness ==
    /\ script = "wan" /\ mode = "batch" /\ pc = "poll"
    /\ i = 3 /\ polls = 2
    /\ Len(success_rows) = 1 /\ Len(failed_rows) = 1
    /\ Len(attempt_order) = 3

C22_RateLimitConsumesBudget ==
    script \in SyncScripts =>
        /\ requests <= retry_count
        /\ requests = Len(outcomes)
        /\ pc = "gen" => (attempt = requests /\ attempt < retry_count)
        /\ (AllAre(outcomes, "RATE_LIMITED") /\ Len(outcomes) \in 1..(retry_count - 1)) =>
              pc = "gen"
        /\ (AllAre(outcomes, "RATE_LIMITED") /\ Len(outcomes) = retry_count) =>
              /\ requests = retry_count
              /\ pc \notin InCall
              /\ ~Truthy(result)

\* a call of seedream3.0&4.0.py whose three requests all met 429 and which
\* returned None
C22_Witness ==
    /\ script = "seedream" /\ pc = "returned"
    /\ outcomes = <<"RATE_LIMITED", "RATE_LIMITED", "RATE_LIMITED">>
    /\ requests = retry_count
    /\ result = None

\* the outcomes the retry loop retries after a backoff wait
BackoffOutcomes == {"TIMEOUT", "UNKNOWN_ERROR"}

\* C23: in the scripts with a retry loop, the k-th attempt (0-based index
\* k - 1) that is followed by another attempt is followed by exactly one
\* wait, of 10 * k seconds when it met HTTP 429 and of 2 ^ (k - 1) seconds when
\* it timed out or failed in another retryable way.
C23_WaitValues ==
    script \in SyncScripts =>
        /\ Len(waits) <= Len(outcomes)
        /\ \A k \in 1..(Len(outcomes) - 1) : k <= Len(waits)
        /\ \A k \in 1..Len(waits) :
              /\ outcomes[k] = "RATE_LIMITED" => waits[k] = 10 * k
              /\ outcomes[k] \in BackoffOutcomes => waits[k] = 2 ^ (k - 1)

\* a call whose first attempt met 429 and whose second attempt timed out,
\* about to make its third attempt after waits of 10 and 2 seconds
C23_Witness ==
    /\ script = "qwen" /\ pc = "gen"
    /\ outcomes = <<"RATE_LIMITED", "TIMEOUT">>
    /\ waits = <<10, 2>>

\* what an attempt obtained from a 200 response whose JSON body it went
\* through
InterpretedKinds == {"IMAGE", "NO_IMAGE", "BAD_IMAGE"}

\* C24: in each script, a 200 response that was interpreted was written to
\* a debug file: the response of the last generation request of the
\* synchronous scripts, the response to the last status query of the
\* asynchronous script, and the response to its submit.
C24_InterpretedResponsesDumped ==
    /\ (script \in SyncScripts /\ requests > 0 /\ last_kind \in InterpretedKinds) =>
          dumps = 1
    /\ (script = "wan" /\ polls > 0
        /\ last_status \in PollReplies \ {"EXCEPTION", "HTTP_ERROR", "BAD_JSON"}) =>
          dumps = 1
    /\ (script = "wan" /\ polls = 0 /\ last_kind \in {"TASK_CREATED", "NO_TASK_ID"}) =>
          dumps = 1

\* C25: in wan2.5-t2i-preview.py one generate_image call goes through submit,
\* poll, extract and save in this order: at most one submit request; a status
\* query only after the submit returned a task id; an extraction, a download
\* or a save only after a status query reported SUCCEEDED; a file only when
\* the extraction produced an image; and a call whose submit failed has
\* issued one submit request and no status query and returns no path.
C25_StagesInOrder ==
    script = "wan" =>
        /\ requests <= 1
        /\ pc = "submit" => (requests = 0 /\ polls = 0)
        /\ pc = "poll" => (requests = 1 /\ Truthy(task_id))
        /\ polls > 0 => (requests = 1 /\ Truthy(task_id))
        /\ (pc = "extract" \/ dl_calls > 0 \/ last_kind \in InterpretedKinds) =>
              (polls > 0 /\ last_status = "SUCCEEDED" /\ task_result = "result")
        /\ Truthy(result) => (last_kind = "IMAGE" /\ last_status = "SUCCEEDED")
        /\ (requests = 1 /\ ~Truthy(task_id) /\ pc # "submit") =>
              (polls = 0 /\ dl_calls = 0 /\ ~Truthy(result) /\ pc \notin InCall)

\* a call that went through all four stages after two status queries
C25_Witness ==
    /\ script = "wan" /\ pc = "returned"
    /\ requests = 1 /\ polls = 2 /\ Truthy(result)

\* C26: in the synchronous scripts a generate_image call whose last permitted
\* attempt failed returns without a wait after that attempt: a call that
\* used all retry_count attempts has slept at most retry_count - 1 times,
\* whatever the failures were.
C26_NoWaitAfterLastAttempt ==
    (script \in SyncScripts /\ pc \notin InCall /\ requests = retry_count
        /\ ~Truthy(result)) =>
        Len(waits) <= retry_count - 1

\* a text holds inline base64 of a valid image
InlineValid(s) == B64Decode(s).ok /\ ValidImage(B64Decode(s).bytes)
\* the download answers 200 with a valid image
DownloadValid(dl) == dl.net = "response" /\ dl.status = 200 /\ ValidImage(dl.content)
\* the places of a response body that carry a valid image
ValidShapes(body, dl) ==
    {sh \in {"images", "output", "data"} :
        CASE sh = "images" -> body.images.t = "str" /\ InlineValid(body.images.v)
          [] sh = "output" ->
               /\ body.output.t = "str"
               /\ IF StartsWithHttp(body.output.v) THEN DownloadValid(dl)
                  ELSE InlineValid(body.output.v)
          [] OTHER ->
               /\ body.data.t = "item"
               /\ IF body.data.has_url THEN DownloadValid(dl)
                  ELSE body.data.has_b64 /\ InlineValid(body.data.b64)}

\* C27: in qwen-image-plus.py an attempt on a 200 response that carries a
\* valid image in at least one of the recognised places saves it and
\* succeeds, whatever the places in front of it hold.
C27_AnyValidShapeSucceeds ==
    (probe.fn = "parse" /\ script = "qwen" /\ probe.out # NoOut
        /\ ValidShapes(probe.body, probe.dl) # {}) =>
        /\ probe.out.att.path # None
        /\ probe.out.att.control = "return"

\* the place the parsing stops at holds an http URL
HttpUrlFound(body) ==
    \/ FirstShape(body) = "output" /\ body.output.t = "str"
         /\ StartsWithHttp(body.output.v)
    \/ FirstShape(body) = "data" /\ body.data.t = "item" /\ body.data.has_url
         /\ StartsWithHttp(body.data.url)

\* C28: in qwen-image-plus.py the attempt calls for an image download only
\* when the response yielded an http URL; inline base64 data in
\* output.choices[0].message.content[0].image is decoded and no download is
\* called for.
C28_DownloadOnlyForHttpUrl ==
    (probe.fn = "parse" /\ script = "qwen" /\ probe.out # NoOut) =>
        /\ probe.out.att.dl_calls > 0 => HttpUrlFound(probe.body)
        /\ (FirstShape(probe.body) = "output" /\ probe.body.output.t = "str"
             /\ ~StartsWithHttp(probe.body.output.v)
             /\ B64Decode(probe.body.output.v).ok) =>
               /\ probe.out.image = B64Decode(probe.body.output.v).bytes
               /\ probe.out.att.dl_calls = 0

\* C29: generate_image called by the single-image test with the row
\* identifier "test_single", with an API whose first answer holds a valid
\* image, saves the image and returns its path after one generation request
\* (one submit in wan2.5-t2i-preview.py), and no exception leaves it.
C29_SmokeTestSaves ==
    mode = "single" =>
        /\ raised = "none"
        /\ ((script = "qwen" /\ Len(outcomes) >= 1 /\ outcomes[1] = "IMAGE")
            \/ (script = "wan" /\ last_kind = "IMAGE")) =>
              /\ requests = 1
              /\ pc \notin InCall
              /\ Truthy(result) /\ result \in files

\* C30: in the scripts with a retry loop a generate_image call makes at most
\* retry_count generation requests: every step of the loop makes exactly one
\* request and either leaves the loop or raises the attempt index by one, the
\* index never reaches retry_count inside the loop, a returned path ends the
\* call with the attempt that obtained the image, no attempt of a batch
\* follows one that obtained a valid image, and an attempt calls for at most
\* one image download.
C30_RetryLoopTerminates ==
    /\ [](script \in SyncScripts =>
            /\ requests <= retry_count
            /\ attempt <= retry_count
            /\ pc = "gen" => attempt < retry_count
            /\ dl_calls <= 1 /\ downloads <= 1
            /\ Truthy(result) =>
                  (pc \notin InCall /\ outcomes[Len(outcomes)] = "IMAGE")
            /\ mode = "batch" =>
                  \A k \in 1..(Len(outcomes) - 1) : outcomes[k] # "IMAGE")
    /\ [][(script \in SyncScripts /\ pc = "gen") =>
            /\ requests' = requests + 1
            /\ Len(outcomes') = Len(outcomes) + 1
            /\ attempt' \in {attempt, attempt + 1}
            /\ pc' = "gen" => attempt' = attempt + 1
            /\ pc' # "gen" => pc' = "returned"]_vars

\* a batch call that failed twice, downloaded the image on its third
\* attempt and returned the path
C30_Witness ==
    /\ script \in SyncScripts /\ mode = "batch" /\ pc = "returned"
    /\ requests = retry_count /\ attempt = retry_count - 1
    /\ Truthy(result) /\ downloads = 1

\* C31: when read_texts_from_excel returns no rows, generate_from_excel
\* returns None and the run is over: no generation request and no status
\* query was issued, generate_image was never called, no image file and no
\* report was written; and a batch never issues a request, writes a file or
\* writes a report while it holds no rows.
C31_EmptyRowSourceNoEffects ==
    /\ pc = "empty" =>
          /\ texts = <<>> /\ ret = NoResult /\ raised = "none"
          /\ requests = 0 /\ polls = 0 /\ dl_calls = 0 /\ downloads = 0
          /\ attempt_order = <<>> /\ returns = <<>>
          /\ files = {}
          /\ report_writes = 0 /\ report = NoReport
          /\ ~ENABLED Next
    /\ (mode = "batch" /\ texts = <<>>) =>
          /\ pc \in {"start", "aborted", "crashed", "empty"}
          /\ attempt_order = <<>> /\ files = {} /\ report_writes = 0

\* a batch run that ended because the Row Source yielded no rows
C31_Witness ==
    /\ mode = "batch" /\ pc = "empty" /\ texts = <<>>
    /\ requests = 0 /\ report_writes = 0

\* the status queries that fail: a transport exception, a non-200 status, a
\* response without output
FailedQueries == {"EXCEPTION", "HTTP_ERROR", "NO_OUTPUT"}

\* C32: in wan2.5-t2i-preview.py a status query that fails does not end the
\* polling: it counts as one of the max_retries polls and is followed by one
\* wait of retry_interval; while polls are left the call is still polling,
\* and only the last poll of the budget ends it, with no result; a later
\* status query that reports SUCCEEDED makes get_task_result return the
\* result, which is handed to the extraction.
C32_FailedQueryKeepsPolling ==
    /\ [](( script = "wan" /\ polls > 0 /\ last_status \in FailedQueries) =>
            /\ polls <= max_retries
            /\ attempt = polls /\ poll_waits = polls
            /\ task_result = None
            /\ polls < max_retries => pc = "poll"
            /\ polls = max_retries => (pc \notin InCall /\ ~Truthy(result)))
    /\ [][(script = "wan" /\ pc = "poll" /\ polls > 0 /\ last_status \in FailedQueries
            /\ last_status' = "SUCCEEDED") =>
            /\ polls' = polls + 1
            /\ task_result' = "result"
            /\ pc' = "extract"]_vars

\* a call whose second status query met a non-200 status, still polling
\* after two waits
C32_Witness ==
    /\ script = "wan" /\ pc = "poll"
    /\ polls = 2 /\ last_status = "HTTP_ERROR"
    /\ poll_waits = 2 /\ attempt = 2

\* the other synchronous script
OtherSync(sc) == IF sc = "qwen" THEN "seedream" ELSE "qwen"
\* a response that holds only data[0], with a url entry, a b64_json entry
\* or both
GenericData(body) ==
    /\ body = Only(body, "data")
    /\ body.data.t = "item"
    /\ body.data.has_url \/ body.data.has_b64

\* C33: on a response that holds only data[0] with a url entry, a b64_json
\* entry or both, qwen-image-plus.py and seedream3.0&4.0.py choose the same
\* entry (both download or neither does) and obtain the same image bytes.
C33_SameImageFromData ==
    (probe.fn = "parse" /\ probe.out # NoOut /\ GenericData(probe.body)) =>
        LET other == ParseResponse(OtherSync(script), probe.r, probe.body, probe.dl)
        IN  /\ probe.out.att.downloads = other.att.downloads
            /\ probe.out.image = other.image

====
